---- MODULE Spec2Model ----
(***************************************************************************)
(* State-machine model of the family-tree backend (src/main.py): the       *)
(* member collection, the event collection, the admin settings collection  *)
(* and the HTTP handlers that read and write them.                          *)
(*                                                                           *)
(* Every handler except register performs a single store operation and is   *)
(* one atomic action.  register performs two store operations (find_one,    *)
(* insert_one) with an awaited upload between them, so it is three steps.    *)
(* approve and reject are split into the arrival of the request, the         *)
(* execution of the handler and the delivery of its answer, so that an       *)
(* approve and a reject can be in flight at once.                            *)
(*                                                                           *)
(* SpecSerial runs every handler, one request at a time.  SpecRegisterRace   *)
(* interleaves the steps of two register requests; SpecModerationRace        *)
(* interleaves an approve request with a reject request.                     *)
(*                                                                           *)
(* The form fields of a member record other than fullName and phone carry    *)
(* one fixed value each: no handler branches on them.  The upload either     *)
(* fails or returns a result that carries a secure_url.                      *)
(***************************************************************************)
EXTENDS Integers, Sequences, FiniteSets, TLC

\* ---------------------------------------------------------------- bounds
MaxUsers == 2        \* insert_one calls on the member collection
MaxEvents == 1       \* insert_one calls on the event collection

\* ------------------------------------------------------------- constants
PLACEHOLDER == "https://via.placeholder.com/150"
SECURE_URL == "https://res.cloudinary.com/photo.jpg"
ADMIN_USERNAME == "KTMTFAMILY WEBSITE"
DEFAULT_PASSWORD == "KTMTPASSWORD"

RegSlots == {"r1", "r2"}          \* concurrent register requests
AdminOps == {"approve", "reject"} \* one moderation request of each kind in flight

Names == {"Asha"}
Phones == {"9990001111", "9990002222"}
Forms == [fullName : Names, phone : Phones]
Photos == { [present |-> FALSE, filename |-> ""],
            [present |-> TRUE, filename |-> ""],
            [present |-> TRUE, filename |-> "me.jpg"] }
Usernames == {ADMIN_USERNAME, "someone"}
Passwords == {DEFAULT_PASSWORD, "new1", "new2"}
Titles == {"Reunion", "Picnic"}

\* ------------------------------------------------------ bson ObjectId
OidHexLen == 24
HexDigits == <<"0","1","2","3","4","5","6","7","8","9","a","b","c","d","e","f">>
UpperDigits == <<"0","1","2","3","4","5","6","7","8","9","A","B","C","D","E","F">>
InvalidId == -1

\* int(c, 16) for each character that is a hex digit
HexValue ==
    [ c \in { HexDigits[i] : i \in 1..16 } \cup { UpperDigits[i] : i \in 1..16 } |->
        (CHOOSE i \in 1..16 : HexDigits[i] = c \/ UpperDigits[i] = c) - 1 ]

IsHexChar(c) == c \in DOMAIN HexValue

\* the number the first n characters of s spell in base 16
RECURSIVE HexNum(_, _)
HexNum(s, n) ==
    IF n = 0 THEN 0 ELSE 16 * HexNum(s, n - 1) + HexValue[s[n]]

RECURSIVE HexStr(_, _)
HexStr(n, len) ==
    IF len = 0 THEN <<>>
    ELSE Append(HexStr(n \div 16, len - 1), HexDigits[(n % 16) + 1])

\* ObjectId(user_id): the value of a 24-digit hex string, InvalidId otherwise
ParseObjectId(s) ==
    IF Len(s) = OidHexLen /\ \A i \in 1..Len(s) : IsHexChar(s[i])
    THEN HexNum(s, Len(s))
    ELSE InvalidId

\* identifier strings a client may send: the identifiers the store generates,
\* a well-formed one it never generates, a short one and a non-hex one
IdStrings ==
    { HexStr(i, OidHexLen) : i \in 1..MaxUsers }
        \cup { [i \in 1..OidHexLen |-> IF i = OidHexLen THEN "F" ELSE "0"],
               <<"1">>,
               [i \in 1..OidHexLen |-> IF i = 1 THEN "g" ELSE "0"] }

\* ParseObjectId and the hex form, tabulated once for the values the model uses
ParsedIds == [ s \in IdStrings |-> ParseObjectId(s) ]
HexForms == [ oid \in 0..MaxUsers |-> HexStr(oid, OidHexLen) ]

ObjectId(s) == IF s \in DOMAIN ParsedIds THEN ParsedIds[s] ELSE ParseObjectId(s)

\* str(user["_id"])
StrOid(oid) == IF oid \in DOMAIN HexForms THEN HexForms[oid] ELSE HexStr(oid, OidHexLen)

\* -------------------------------------------------------------- responses
Response(code, msg) == [code |-> code, msg |-> msg, docs |-> {}]
Listing(docs) == [code |-> 200, msg |-> "", docs |-> docs]
NoResponse == Response(0, "")

HTTPException(status_code, detail) == [raised |-> TRUE, resp |-> Response(status_code, detail)]
Return(msg) == [raised |-> FALSE, resp |-> Response(200, msg)]
InvalidIdError == [raised |-> TRUE, resp |-> Response(0, "bson.errors.InvalidId")]

VARIABLES
    users,        \* member collection: set of documents
    nextOid,      \* number of ObjectIds the member collection has generated
    events,       \* event collection: set of documents
    nextUuid,     \* number of uuid4 identifiers generated
    settings,     \* settings collection: set of documents
    reg,          \* register requests in flight, per slot
    adm,          \* the approve request and the reject request: in flight or answered
    resp,         \* the response the latest step sent, NoResponse if it sent none
    lastChanged,  \* history: <<p>> for the latest change-password(p), <<>> if none
    overlap       \* history: some register began while another was in flight

vars == <<users, nextOid, events, nextUuid, settings, reg, adm, resp, lastChanged, overlap>>

\* ------------------------------------------------------- member collection
\* faulty variant of NewUser: the record is created already approved
NewUserApproved(oid, form, photo_url) ==
    [ _id |-> oid, name |-> form.fullName, gender |-> "Female",
      memberType |-> "Blood_Relative", phone |-> form.phone, password |-> "secret",
      mainFamily |-> "KTMT", subFamily |-> "North", parent |-> "Root",
      pincode |-> "600001", address |-> "1 Main St", jobType |-> "Private",
      jobDetails |-> "Engineer", talent |-> "Singing", photo |-> photo_url,
      status |-> "Approved", isAdmin |-> FALSE ]

\* new_user, as register_user assembles it
NewUser(oid, form, photo_url) ==
    [ _id |-> oid,
      name |-> form.fullName,
      gender |-> "Female",
      memberType |-> "Blood_Relative",
      phone |-> form.phone,
      password |-> "secret",
      mainFamily |-> "KTMT",
      subFamily |-> "North",
      parent |-> "Root",
      pincode |-> "600001",
      address |-> "1 Main St",
      jobType |-> "Private",
      jobDetails |-> "Engineer",
      talent |-> "Singing",
      photo |-> photo_url,
      status |-> "Pending",
      isAdmin |-> FALSE ]

\* faulty variant of FindOnePhone: the lookup queries the name field
FindOnePhoneWrongField(coll, phone) == \E u \in coll : u.name = phone

\* users_collection.find_one({"phone": phone}), as a truth value
FindOnePhone(coll, phone) == \E u \in coll : u.phone = phone

\* faulty variant of UpdateOneApproved: the filter is dropped, every document matches
UpdateManyApproved(coll, oid) ==
    LET changed == { u \in coll : u.status # "Approved" }
    IN  [ coll |-> (coll \ changed) \cup { [u EXCEPT !.status = "Approved"] : u \in changed },
          modified_count |-> IF changed = {} THEN 0 ELSE 1 ]

\* users_collection.update_one({"_id": oid}, {"$set": {"status": "Approved"}})
UpdateOneApproved(coll, oid) ==
    LET matched == { u \in coll : u._id = oid }
        changed == { u \in matched : u.status # "Approved" }
    IN  [ coll |-> (coll \ changed) \cup { [u EXCEPT !.status = "Approved"] : u \in changed },
          modified_count |-> Cardinality(changed) ]

\* users_collection.delete_one({"_id": oid})
DeleteOneId(coll, oid) ==
    LET matched == { u \in coll : u._id = oid }
    IN  [ coll |-> coll \ matched, deleted_count |-> Cardinality(matched) ]

\* dict.get(key, default)
Get(doc, key, default) == IF key \in DOMAIN doc THEN doc[key] ELSE default

\* the body of GET /admin/pending
GetPendingDocs(coll) ==
    { [ k \in (DOMAIN u \ {"_id"}) \cup {"id"} |->
            IF k = "id" THEN StrOid(u._id) ELSE u[k] ] :
        u \in { v \in coll : v.status = "Pending" } }

\* faulty variant of GetTreeDocs: the status filter is dropped
GetTreeDocsAll(coll) ==
    { [ _id |-> StrOid(u._id), name |-> u.name, photo |-> u.photo,
        phone |-> u.phone, status |-> u.status ] : u \in coll }

\* the body of GET /tree
GetTreeDocs(coll) ==
    { [ _id |-> StrOid(u._id),
        name |-> u.name,
        gender |-> Get(u, "gender", "N/A"),
        memberType |-> Get(u, "memberType", "Blood_Relative"),
        photo |-> u.photo,
        phone |-> Get(u, "phone", ""),
        mainFamily |-> u.mainFamily,
        subFamily |-> Get(u, "subFamily", ""),
        parent |-> u.parent,
        jobType |-> Get(u, "jobType", "N/A"),
        jobDetails |-> Get(u, "jobDetails", "N/A"),
        talent |-> Get(u, "talent", "N/A") ] :
        u \in { v \in coll : v.status = "Approved" } }

\* the try/except of approve_user: every exception raised in the try block,
\* the HTTPException(404) included, is caught by "except Exception"
ApproveOutcome(coll, user_id) ==
    LET oid == ObjectId(user_id)
        result == UpdateOneApproved(coll, oid)
        tried ==
            IF oid = InvalidId THEN InvalidIdError
            ELSE IF result.modified_count = 1 THEN Return("User Approved")
            ELSE HTTPException(404, "User not found")
        out == IF tried.raised THEN HTTPException(400, "Invalid ID") ELSE tried
    IN  [ coll |-> IF oid = InvalidId THEN coll ELSE result.coll, resp |-> out.resp ]

\* faulty variant of RejectOutcome: only a Pending record is deleted
RejectOutcomePendingOnly(coll, user_id) ==
    LET oid == ObjectId(user_id)
        matched == { u \in coll : u._id = oid /\ u.status = "Pending" }
    IN  [ coll |-> coll \ matched,
          resp |-> IF matched # {} THEN Response(200, "User Rejected")
                   ELSE Response(400, "Invalid ID") ]

\* the try/except of reject_user, with the same catch-all
RejectOutcome(coll, user_id) ==
    LET oid == ObjectId(user_id)
        result == DeleteOneId(coll, oid)
        tried ==
            IF oid = InvalidId THEN InvalidIdError
            ELSE IF result.deleted_count = 1 THEN Return("User Rejected")
            ELSE HTTPException(404, "User not found")
        out == IF tried.raised THEN HTTPException(400, "Invalid ID") ELSE tried
    IN  [ coll |-> IF oid = InvalidId THEN coll ELSE result.coll, resp |-> out.resp ]

\* ------------------------------------------------------------------ slots
IdleReg == [ pc |-> "idle",
             form |-> [fullName |-> "", phone |-> ""],
             photo_url |-> PLACEHOLDER ]
IdleAdm == [ pc |-> "idle", user_id |-> <<>>, seen |-> "", code |-> 0 ]

\* the status of the record an identifier string names, as the caller sees it
StatusOf(coll, user_id) ==
    LET matched == { u \in coll : u._id = ObjectId(user_id) }
    IN  IF matched = {} THEN "absent" ELSE (CHOOSE u \in matched : TRUE).status

InFlight == { r \in RegSlots : reg[r].pc # "idle" }

Init ==
    /\ users = {}
    /\ nextOid = 0
    /\ events = {}
    /\ nextUuid = 0
    /\ settings = {}
    /\ reg = [r \in RegSlots |-> IdleReg]
    /\ adm = [op \in AdminOps |-> IdleAdm]
    /\ resp = NoResponse
    /\ lastChanged = <<>>
    /\ overlap = FALSE

\* ---------------------------------------------------------------- register
\* POST /register up to the upload: the duplicate-phone check and the choice
\* of the photo branch
RegisterCheck(r, form, photo) ==
    /\ reg[r].pc = "idle"
    /\ IF FindOnePhone(users, form.phone)
       THEN /\ resp' = Response(400, "Phone already registered")
            /\ UNCHANGED <<reg, overlap>>
       ELSE /\ nextOid + Cardinality(InFlight) < MaxUsers
            /\ reg' = [reg EXCEPT ![r] =
                    [ pc |-> IF photo.present /\ photo.filename # "" THEN "upload" ELSE "insert",
                      form |-> form,
                      photo_url |-> PLACEHOLDER ]]
            /\ overlap' = (overlap \/ InFlight # {})
            /\ resp' = NoResponse
    /\ UNCHANGED <<users, nextOid, events, nextUuid, settings, adm, lastChanged>>

\* faulty variant of RegisterUpload: a failed upload is swallowed and the placeholder kept
RegisterUploadSwallow(r, ok) ==
    /\ reg[r].pc = "upload"
    /\ reg' = [reg EXCEPT ![r].pc = "insert",
                          ![r].photo_url = IF ok THEN SECURE_URL ELSE PLACEHOLDER]
    /\ resp' = NoResponse
    /\ UNCHANGED <<users, nextOid, events, nextUuid, settings, adm, lastChanged, overlap>>

\* await photo.read() and cloudinary.uploader.upload: succeeds or raises
RegisterUpload(r, ok) ==
    /\ reg[r].pc = "upload"
    /\ IF ok
       THEN /\ reg' = [reg EXCEPT ![r].pc = "insert", ![r].photo_url = SECURE_URL]
            /\ resp' = NoResponse
       ELSE /\ reg' = [reg EXCEPT ![r] = IdleReg]
            /\ resp' = Response(500, "Image upload failed")
    /\ UNCHANGED <<users, nextOid, events, nextUuid, settings, adm, lastChanged, overlap>>

\* users_collection.insert_one(new_user) and the return
RegisterInsert(r) ==
    /\ reg[r].pc = "insert"
    /\ users' = users \cup { NewUser(nextOid + 1, reg[r].form, reg[r].photo_url) }
    /\ nextOid' = nextOid + 1
    /\ reg' = [reg EXCEPT ![r] = IdleReg]
    /\ resp' = Response(200, "Registration Request Sent!")
    /\ UNCHANGED <<events, nextUuid, settings, adm, lastChanged, overlap>>

\* ------------------------------------------------- admin: pending/approve/reject
GetPending ==
    /\ resp' = Listing(GetPendingDocs(users))
    /\ UNCHANGED <<users, nextOid, events, nextUuid, settings, reg, adm, lastChanged, overlap>>

\* a PUT /admin/approve/{user_id} or DELETE /admin/reject/{user_id} request arrives
CallAdmin(op, user_id) ==
    /\ adm[op].pc = "idle"
    /\ adm' = [adm EXCEPT ![op] =
            [ pc |-> "called", user_id |-> user_id,
              seen |-> StatusOf(users, user_id), code |-> 0 ]]
    /\ resp' = NoResponse
    /\ UNCHANGED <<users, nextOid, events, nextUuid, settings, reg, lastChanged, overlap>>

ApproveUser ==
    /\ adm["approve"].pc = "called"
    /\ LET out == ApproveOutcome(users, adm["approve"].user_id)
       IN  /\ users' = out.coll
           /\ resp' = out.resp
           /\ adm' = [adm EXCEPT !["approve"].pc = "done", !["approve"].code = out.resp.code]
    /\ UNCHANGED <<nextOid, events, nextUuid, settings, reg, lastChanged, overlap>>

RejectUser ==
    /\ adm["reject"].pc = "called"
    /\ LET out == RejectOutcome(users, adm["reject"].user_id)
       IN  /\ users' = out.coll
           /\ resp' = out.resp
           /\ adm' = [adm EXCEPT !["reject"].pc = "done", !["reject"].code = out.resp.code]
    /\ UNCHANGED <<nextOid, events, nextUuid, settings, reg, lastChanged, overlap>>

\* the client has read the answer to its approve or reject request
Deliver(op) ==
    /\ adm[op].pc = "done"
    /\ adm' = [adm EXCEPT ![op] = IdleAdm]
    /\ resp' = NoResponse
    /\ UNCHANGED <<users, nextOid, events, nextUuid, settings, reg, lastChanged, overlap>>

GetTree ==
    /\ resp' = Listing(GetTreeDocs(users))
    /\ UNCHANGED <<users, nextOid, events, nextUuid, settings, reg, adm, lastChanged, overlap>>

\* GET /
Home ==
    /\ resp' = Response(200, "Family Tree Backend is Running!")
    /\ UNCHANGED <<users, nextOid, events, nextUuid, settings, reg, adm, lastChanged, overlap>>

\* ------------------------------------------------------ admin authentication
\* faulty variant of AdminPassword: the stored password is never read
AdminPasswordDefault(coll) == DEFAULT_PASSWORD

\* db.settings.find_one({"type": "admin_credentials"}) and the password login uses
AdminPassword(coll) ==
    LET found == { d \in coll : d.type = "admin_credentials" }
    IN  IF found # {}
        THEN Get(CHOOSE d \in found : TRUE, "password", DEFAULT_PASSWORD)
        ELSE DEFAULT_PASSWORD

LoginOutcome(coll, username, password) ==
    IF username = ADMIN_USERNAME /\ password = AdminPassword(coll)
    THEN Response(200, "Login successful")
    ELSE Response(401, "Invalid username or password")

\* db.settings.update_one({"type": ...}, {"$set": {...}}, upsert=True)
UpsertPassword(coll, new_password) ==
    LET found == { d \in coll : d.type = "admin_credentials" }
        doc == [type |-> "admin_credentials", password |-> new_password]
    IN  IF found = {} THEN coll \cup {doc}
        ELSE LET d == CHOOSE x \in found : TRUE
             IN  (coll \ {d}) \cup { [d EXCEPT !.password = new_password,
                                               !.type = "admin_credentials"] }

Login(username, password) ==
    /\ resp' = LoginOutcome(settings, username, password)
    /\ UNCHANGED <<users, nextOid, events, nextUuid, settings, reg, adm, lastChanged, overlap>>

ChangePassword(new_password) ==
    /\ settings' = UpsertPassword(settings, new_password)
    /\ lastChanged' = <<new_password>>
    /\ resp' = Response(200, "Password updated successfully")
    /\ UNCHANGED <<users, nextOid, events, nextUuid, reg, adm, overlap>>

\* ------------------------------------------------------------------ events
\* str(uuid.uuid4()) for the n-th event created
Uuid4(n) == <<"uuid4", n>>
EventIds == { Uuid4(n) : n \in 0..MaxEvents }

\* event.model_dump()
ModelDump(title) ==
    [ title |-> title,
      description |-> "Annual meet",
      date |-> "2026-01-01",
      location |-> "Hall",
      image_url |-> "https://img/1.png",
      registration_link |-> "" ]

\* event_dict with its generated id, as stored
EventDoc(n, title) ==
    [ k \in DOMAIN ModelDump(title) \cup {"_id", "id"} |->
        IF k = "_id" THEN n
        ELSE IF k = "id" THEN Uuid4(n)
        ELSE ModelDump(title)[k] ]

\* faulty variant of UpdateOneEvent: the update is an upsert
UpdateOneEventUpsert(coll, event_id, title) ==
    LET matched == { e \in coll : e.id = event_id }
    IN  IF matched = {}
        THEN coll \cup { [ k \in DOMAIN ModelDump(title) \cup {"_id", "id"} |->
                             IF k = "_id" THEN 0
                             ELSE IF k = "id" THEN event_id
                             ELSE ModelDump(title)[k] ] }
        ELSE LET e == CHOOSE x \in matched : TRUE
             IN  (coll \ {e}) \cup
                     { [ k \in DOMAIN e |->
                           IF k \in DOMAIN ModelDump(title) THEN ModelDump(title)[k] ELSE e[k] ] }

\* db.events.update_one({"id": event_id}, {"$set": event.model_dump()})
UpdateOneEvent(coll, event_id, title) ==
    LET matched == { e \in coll : e.id = event_id }
    IN  IF matched = {} THEN coll
        ELSE LET e == CHOOSE x \in matched : TRUE
             IN  (coll \ {e}) \cup
                     { [ k \in DOMAIN e |->
                           IF k \in DOMAIN ModelDump(title) THEN ModelDump(title)[k] ELSE e[k] ] }

\* db.events.delete_one({"id": event_id})
DeleteOneEvent(coll, event_id) ==
    LET matched == { e \in coll : e.id = event_id }
    IN  IF matched = {} THEN coll ELSE coll \ { CHOOSE x \in matched : TRUE }

\* list(db.events.find({}, {"_id": 0}))
GetEventsDocs(coll) == { [ k \in DOMAIN e \ {"_id"} |-> e[k] ] : e \in coll }

GetEvents ==
    /\ resp' = Listing(GetEventsDocs(events))
    /\ UNCHANGED <<users, nextOid, events, nextUuid, settings, reg, adm, lastChanged, overlap>>

CreateEvent(title) ==
    /\ nextUuid < MaxEvents
    /\ events' = events \cup { EventDoc(nextUuid + 1, title) }
    /\ nextUuid' = nextUuid + 1
    /\ resp' = Response(200, "Event created successfully")
    /\ UNCHANGED <<users, nextOid, settings, reg, adm, lastChanged, overlap>>

UpdateEvent(event_id, title) ==
    /\ events' = UpdateOneEvent(events, event_id, title)
    /\ resp' = Response(200, "Event updated successfully")
    /\ UNCHANGED <<users, nextOid, nextUuid, settings, reg, adm, lastChanged, overlap>>

DeleteEvent(event_id) ==
    /\ events' = DeleteOneEvent(events, event_id)
    /\ resp' = Response(200, "Event deleted successfully")
    /\ UNCHANGED <<users, nextOid, nextUuid, settings, reg, adm, lastChanged, overlap>>

\* ----------------------------------------------------------- specifications
\* no request is between two of its steps
Quiet ==
    /\ \A r \in RegSlots : reg[r].pc = "idle"
    /\ \A op \in AdminOps : adm[op].pc = "idle"

\* Every handler of the service, requests handled one at a time: a request
\* begins only when no other request is between two of its steps.
NextSerial ==
    \/ Quiet /\ \E r \in RegSlots, form \in Forms, photo \in Photos :
                    RegisterCheck(r, form, photo)
    \/ \E r \in RegSlots, ok \in BOOLEAN : RegisterUpload(r, ok)
    \/ \E r \in RegSlots : RegisterInsert(r)
    \/ Quiet /\ Home
    \/ Quiet /\ GetPending
    \/ Quiet /\ \E op \in AdminOps, user_id \in IdStrings : CallAdmin(op, user_id)
    \/ ApproveUser
    \/ RejectUser
    \/ \E op \in AdminOps : Deliver(op)
    \/ Quiet /\ \E u \in Usernames, pw \in Passwords : Login(u, pw)
    \/ Quiet /\ \E pw \in Passwords : ChangePassword(pw)
    \/ Quiet /\ GetTree
    \/ Quiet /\ GetEvents
    \/ Quiet /\ \E title \in Titles : CreateEvent(title)
    \/ Quiet /\ \E id \in EventIds, title \in Titles : UpdateEvent(id, title)
    \/ Quiet /\ \E id \in EventIds : DeleteEvent(id)

SpecSerial == Init /\ [][NextSerial]_vars

RegQuiet == \A r \in RegSlots : reg[r].pc = "idle"
AdmQuiet == \A op \in AdminOps : adm[op].pc = "idle"

\* The handlers that write the member collection, the steps of two register
\* requests interleaved; approve and reject requests are handled one at a
\* time, between the register requests.
NextRegisterRace ==
    \/ AdmQuiet /\ \E r \in RegSlots, form \in Forms, photo \in Photos :
                       RegisterCheck(r, form, photo)
    \/ \E r \in RegSlots, ok \in BOOLEAN : RegisterUpload(r, ok)
    \/ \E r \in RegSlots : RegisterInsert(r)
    \/ Quiet /\ \E op \in AdminOps, i \in 1..MaxUsers : CallAdmin(op, StrOid(i))
    \/ ApproveUser
    \/ RejectUser
    \/ \E op \in AdminOps : Deliver(op)

SpecRegisterRace == Init /\ [][NextRegisterRace]_vars

\* The handlers that write the member collection, an approve request and a
\* reject request in flight at once; register requests are handled one at a
\* time, between the approve and reject requests.
NextModerationRace ==
    \/ Quiet /\ \E r \in RegSlots, form \in Forms, photo \in Photos :
                    RegisterCheck(r, form, photo)
    \/ \E r \in RegSlots, ok \in BOOLEAN : RegisterUpload(r, ok)
    \/ \E r \in RegSlots : RegisterInsert(r)
    \/ RegQuiet /\ \E op \in AdminOps, i \in 1..MaxUsers : CallAdmin(op, StrOid(i))
    \/ ApproveUser
    \/ RejectUser
    \/ \E op \in AdminOps : Deliver(op)

SpecModerationRace == Init /\ [][NextModerationRace]_vars

\* ------------------------------------------------------------------ claims
ById(coll, oid) == { u \in coll : u._id = oid }
Absent(coll, oid) == ById(coll, oid) = {}
HasStatus(coll, oid, status) == \E u \in ById(coll, oid) : u.status = status
TreeIds(coll) == { ObjectId(d._id) : d \in GetTreeDocs(coll) }
PendingIds(coll) == { ObjectId(d.id) : d \in GetPendingDocs(coll) }
WellFormed(user_id) ==
    /\ Len(user_id) = OidHexLen
    /\ \A k \in 1..Len(user_id) : user_id[k] \in DOMAIN HexValue

\* C1: a register whose phone equals the phone of a stored record is answered
\* 400 "Phone already registered", inserts nothing, and ends at the check: it
\* never reaches the upload or the insert, whatever the form and the photo.
C1_DuplicatePhoneConflict ==
    [][ \A r \in RegSlots, form \in Forms, photo \in Photos :
          (RegisterCheck(r, form, photo) /\ \E u \in users : u.phone = form.phone)
            => /\ resp' = Response(400, "Phone already registered")
               /\ users' = users
               /\ nextOid' = nextOid
               /\ reg'[r].pc = "idle" ]_vars

C1_Witness ==
    /\ resp = Response(400, "Phone already registered")
    /\ users # {}
    /\ \A r \in RegSlots : reg[r].pc = "idle"

\* C5: when the upload of a register request fails, the answer is 500
\* "Image upload failed", the member collection is unchanged and the request
\* is over, so no record is inserted for it.
C5_UploadFailureAborts ==
    [][ \A r \in RegSlots :
          (reg[r].pc = "upload" /\ RegisterUpload(r, FALSE))
            => /\ resp' = Response(500, "Image upload failed")
               /\ users' = users
               /\ nextOid' = nextOid
               /\ reg'[r].pc = "idle" ]_vars

C5_Witness ==
    /\ resp = Response(500, "Image upload failed")
    /\ \A r \in RegSlots : reg[r].pc = "idle"
    /\ Cardinality(users) = nextOid

\* C7: two records with the same phone are in the member collection only if
\* some register passed its check while another register was in flight; with
\* register requests one at a time the phones of the stored records differ.
DuplicatePhone == \E u \in users, v \in users : u._id # v._id /\ u.phone = v.phone

C7_DuplicateOnlyByRace == DuplicatePhone => overlap

C7_Witness == DuplicatePhone /\ Cardinality(users) = 2 /\ \A r \in RegSlots : reg[r].pc = "idle"

\* C2: approve of the identifier of a Pending record answers 200 "User
\* Approved", sets that record's status to Approved and changes no other
\* record; and an Approved record stays in the GET /tree result and out of the
\* GET /admin/pending result across every step that is not a reject of it.
C2_ApprovePending ==
    [][ /\ \A u \in users :
              (/\ u.status = "Pending"
               /\ adm["approve"].pc = "called"
               /\ adm["approve"].user_id = StrOid(u._id)
               /\ ApproveUser)
                => /\ resp' = Response(200, "User Approved")
                   /\ users' = (users \ {u}) \cup { [u EXCEPT !.status = "Approved"] }
        /\ (users' # users \/ \E u \in users : u.status = "Approved")
              => LET tree == TreeIds(users')
                     pending == PendingIds(users')
                 IN  \A u \in users :
                        (u.status = "Approved"
                           /\ ~(RejectUser /\ ObjectId(adm["reject"].user_id) = u._id))
                          => u._id \in tree /\ u._id \notin pending ]_vars

C2_Witness ==
    /\ resp = Response(200, "User Approved")
    /\ \E u \in users, v \in users :
          /\ u.status = "Approved" /\ adm["approve"].user_id = StrOid(u._id)
          /\ adm["approve"].seen = "Pending"
          /\ v.status = "Pending"
          /\ u._id \in TreeIds(users) /\ u._id \notin PendingIds(users)

\* C3: approve and reject of a well-formed identifier that matches no member
\* record answer 404 "User not found", not the 400 "Invalid ID" of a malformed
\* identifier.
C3_NotFoundIsDistinct ==
    [][ /\ (ApproveUser /\ WellFormed(adm["approve"].user_id)
                /\ Absent(users, ObjectId(adm["approve"].user_id)))
              => resp' = Response(404, "User not found")
        /\ (RejectUser /\ WellFormed(adm["reject"].user_id)
                /\ Absent(users, ObjectId(adm["reject"].user_id)))
              => resp' = Response(404, "User not found") ]_vars

\* C4: the GET /tree result holds exactly the Approved records and the GET
\* /admin/pending result exactly the Pending ones, one entry per record; no
\* record is in both and no record that is not Approved is in the tree.
C4_ListingsPartitionByStatus ==
    /\ TreeIds(users) = { u._id : u \in { v \in users : v.status = "Approved" } }
    /\ PendingIds(users) = { u._id : u \in { v \in users : v.status = "Pending" } }
    /\ Cardinality(GetTreeDocs(users)) = Cardinality({ v \in users : v.status = "Approved" })
    /\ Cardinality(GetPendingDocs(users)) = Cardinality({ v \in users : v.status = "Pending" })
    /\ TreeIds(users) \cap PendingIds(users) = {}
    /\ \A u \in users : u.status # "Approved" => u._id \notin TreeIds(users)

C4_Witness ==
    /\ \E u \in users, v \in users : u.status = "Approved" /\ v.status = "Pending"
    /\ settings # {}
    /\ events # {}
    /\ resp.code = 401

\* C6: event update and event delete with an identifier that no event carries
\* answer their success message and leave the event collection as it was.
C6_EventNoMatchNoChange ==
    [][ \A id \in EventIds :
          (\A e \in events : e.id # id)
            => /\ \A title \in Titles :
                    UpdateEvent(id, title)
                      => /\ resp' = Response(200, "Event updated successfully")
                         /\ events' = events
               /\ DeleteEvent(id)
                    => /\ resp' = Response(200, "Event deleted successfully")
                       /\ events' = events ]_vars

C6_Witness ==
    /\ resp = Response(200, "Event deleted successfully")
    /\ nextUuid > 0
    /\ Cardinality(events) = nextUuid

\* C8: for an approve and a reject that both arrived while the record they
\* name was Pending: once the reject has run its answer is 200 and the record
\* is gone; an approve that ran before the reject answered 200; an approve
\* that answered an error ran after the reject.
RacePair(user_id) ==
    /\ adm["approve"].pc # "idle" /\ adm["reject"].pc # "idle"
    /\ adm["approve"].user_id = user_id /\ adm["reject"].user_id = user_id
    /\ adm["approve"].seen = "Pending" /\ adm["reject"].seen = "Pending"

C8_ApproveRejectRace ==
    \A i \in 1..nextOid :
        RacePair(StrOid(i))
          => /\ adm["reject"].pc = "done"
                  => adm["reject"].code = 200 /\ Absent(users, i)
             /\ (adm["approve"].pc = "done" /\ adm["reject"].pc = "called")
                  => adm["approve"].code = 200 /\ HasStatus(users, i, "Approved")
             /\ (adm["approve"].pc = "done" /\ adm["approve"].code # 200)
                  => adm["reject"].pc = "done"

C8_Witness ==
    \E i \in 1..nextOid :
        /\ RacePair(StrOid(i))
        /\ adm["approve"].pc = "done" /\ adm["reject"].pc = "done"
        /\ adm["approve"].code # 200
        /\ Absent(users, i)

\* C9: login answers 200 exactly when the username is the hardcoded one and
\* the password is the current admin password: the hardcoded default before
\* any change-password, the argument of the latest change-password after.
CurrentPassword == IF lastChanged = <<>> THEN DEFAULT_PASSWORD ELSE lastChanged[1]

C9_LoginUsesLatestPassword ==
    [][ \A u \in Usernames, pw \in Passwords :
          Login(u, pw)
            => IF u = ADMIN_USERNAME /\ pw = CurrentPassword
               THEN resp' = Response(200, "Login successful")
               ELSE resp' = Response(401, "Invalid username or password") ]_vars

C9_Witness ==
    /\ resp = Response(200, "Login successful")
    /\ lastChanged # <<>>
    /\ lastChanged[1] # DEFAULT_PASSWORD

\* C10: every stored record is Pending or Approved with isAdmin false; a
\* record enters the collection Pending, by register's insert; the only change
\* to a stored record is Pending to Approved, by approve; a record leaves the
\* collection only by a reject of its identifier.
C10_MemberLifecycle ==
    [][ /\ \A v \in users' : v.status \in {"Pending", "Approved"} /\ v.isAdmin = FALSE
        /\ \A v \in users' :
              Absent(users, v._id)
                => v.status = "Pending" /\ \E r \in RegSlots : RegisterInsert(r)
        /\ \A u \in users, v \in users' :
              (u._id = v._id /\ u # v)
                => /\ u.status = "Pending"
                   /\ v = [u EXCEPT !.status = "Approved"]
                   /\ ApproveUser
        /\ \A u \in users :
              Absent(users', u._id)
                => RejectUser /\ ObjectId(adm["reject"].user_id) = u._id ]_vars

C10_Witness ==
    /\ \E u \in users : u.status = "Approved"
    /\ Cardinality(users) < nextOid
    /\ resp = Response(200, "User Rejected")

====
